---- MODULE Spec2Model ----
(***************************************************************************)
(* Model of the Stream / Context pair of src/src/stream.rs.                *)
(*                                                                         *)
(* A Stream (consumer handle) and a Context (engine adapter) share two     *)
(* one-directional channels: the outbound channel (Stream -> Context,      *)
(* unbounded_with_error) and the inbound channel (Context -> Stream,       *)
(* futures::sync::mpsc::unbounded).  The engine is seen through the calls  *)
(* the Context makes (picoquic_add_to_stream, picoquic_reset_stream,       *)
(* picoquic_stop_sending), which are recorded in engineCalls.              *)
(***************************************************************************)
EXTENDS Integers, Sequences, FiniteSets, TLC

\* ------------------------------------------------------------------ bounds
\* Number of input-carrying calls in a behaviour (start_send, Stream::reset,
\* recv_data, handle_connection_error, handle_connection_close); polls, drops
\* and poll_complete are not counted.
MaxOps == 3
\* The same number in the behaviours checked under fair Context polling.
FairOps == 1
\* The same number in the behaviours checked under fair Stream polling.
FairStreamOps == 2
\* The same number in the behaviours that keep the inbound histories.
RecvOps == 2

\* Stream ids: every combination of the initiator bit and the direction bit.
Ids == 0..3
\* Outbound payloads (Bytes): the empty chunk and two distinct non-empty ones.
Chunks == {<<>>, <<1>>, <<2>>}
\* Inbound payloads (&[u8]) handed to recv_data.
Payloads == {<<>>, <<5>>}
\* A second non-empty inbound payload, for the behaviours that keep the
\* inbound histories.
OtherPayloads == {<<6>>}
\* picoquic_call_back_event_t values that recv_data tells apart; "data" stands
\* for every other event (picoquic_callback_no_event, ...).
Events == {"data", "stream_reset", "stop_sending", "stream_fin"}
\* Connection errors handed to handle_connection_error.
Errors == {<<9>>}

VARIABLES
    id,             \* Stream.id / Context.id
    is_client_con,  \* Context.is_client_con
    streamAlive,    \* the Stream handle has not been dropped
    stream_reset,   \* Stream.stream_reset
    outQ,           \* outbound channel buffer (Stream.send_msg -> Context.send_msg)
    outClosed,      \* Receiver::close() was called on the outbound channel
    outError,       \* error handed to Receiver::propagate_error, <<>> if none
    inQ,            \* inbound channel buffer (Context.recv_msg -> Stream.recv_msg)
    ctx,            \* Context fields: finished, stop_sending, data_send
    ctxDone,        \* Context::poll has returned Ready(())
    ctxAlive,       \* the driver still owns the Context
    engineCalls,    \* the engine calls made so far, in order
    ret,            \* what the last call that returns a value returned
    panicked,       \* a panic!() branch was taken
    ended,          \* how the inbound sequence ended: "no", "End" or "Err"
    sentLog,        \* history: messages accepted by the outbound channel
    observed,       \* history: messages Context::poll took from the channel
    evLog,          \* history: events delivered to the Context by the driver
    recording,      \* the two histories of the inbound direction are kept
    inLog,          \* history: per driver call, the payload, whether the Context
                    \* was finished already, and whether the call ends the stream
    yielded,        \* history: the payloads Stream::poll returned
    budget          \* how many input-carrying calls may still be made

vars == <<id, is_client_con, streamAlive, stream_reset, outQ, outClosed, outError,
          inQ, ctx, ctxDone, ctxAlive, engineCalls, ret, panicked, ended,
          sentLog, observed, evLog, recording, inLog, yielded, budget>>

\* The history of the inbound direction takes one more entry.
Logged(entry) == inLog' = IF recording THEN Append(inLog, entry) ELSE inLog

\* ---------------------------------------------------------------- messages
Msg(t, d) == [type |-> t, data |-> d]
Close == Msg("Close", <<>>)
Reset == Msg("Reset", <<>>)
SendData(d) == Msg("SendData", d)
\* An inbound payload wrapped in the outbound variant.
RecvData_as_SendData(d) == Msg("SendData", d)
RecvData(d) == Msg("RecvData", d)
Error(e) == Msg("Error", e)

\* engine calls
AddBytes(d, fin) == [call |-> "add_bytes", data |-> d, fin |-> fin]
ResetStream == [call |-> "reset_stream", data |-> <<>>, fin |-> FALSE]
StopSending == [call |-> "stop_sending", data |-> <<>>, fin |-> FALSE]

\* ------------------------------------------------------ id classification
is_unidirectional(i) == (i \div 2) % 2 # 0

is_client_initiated == id % 2 = 0

\* Send permission that ignores which side initiated the stream.
is_unidirectional_send_allowed_ignoring_initiator == is_client_con

is_unidirectional_send_allowed ==
    IF is_client_initiated THEN is_client_con ELSE ~is_client_con

\* --------------------------------------------------------------- channels
\* The outbound Sender fails once the Receiver was closed or dropped.
OutSendFails == outClosed \/ ~ctxAlive

\* An inbound channel that hands out the newest message first.
InSend_newest_first(q, m) == IF streamAlive THEN <<m>> \o q ELSE q

\* The inbound UnboundedSender fails once the Stream (its receiver) is gone.
InSend(q, m) == IF streamAlive THEN Append(q, m) ELSE q

\* What a call returned: the operation, the kind of result, its payload.
Result(op, kind, d) == [op |-> op, kind |-> kind, data |-> d]

\* ---------------------------------------------------------------- Context
\* The part of the Context the outbound path works on, as one record: the
\* three flags, the outbound channel (closed bit, buffer), the engine calls.
CtxState == [finished |-> ctx.finished, stop_sending |-> ctx.stop_sending,
             data_send |-> ctx.data_send, closed |-> outClosed,
             calls |-> engineCalls, q |-> outQ, seen |-> observed,
             result |-> "none"]

\* Context::reset: close the outbound channel, then picoquic_reset_stream.
Context_reset(st) ==
    [st EXCEPT !.closed = TRUE, !.calls = Append(@, ResetStream)]

\* send_data with the engine call skipped for an empty chunk.
send_data_skip_empty(st, data) ==
    IF (is_unidirectional(id) /\ ~is_unidirectional_send_allowed) \/ data = <<>>
    THEN st
    ELSE IF ~st.stop_sending
         THEN [st EXCEPT !.data_send = TRUE,
                         !.calls = Append(@, AddBytes(data, FALSE))]
         ELSE st

\* send_data that counts an empty chunk as data sent.
send_data_counting_empty(st, data) ==
    IF is_unidirectional(id) /\ ~is_unidirectional_send_allowed
    THEN st
    ELSE IF ~st.stop_sending
         THEN [st EXCEPT !.data_send = TRUE,
                         !.calls = Append(@, AddBytes(data, FALSE))]
         ELSE st

\* Context::send_data
send_data(st, data) ==
    IF is_unidirectional(id) /\ ~is_unidirectional_send_allowed
    THEN st
    ELSE IF ~st.stop_sending
         THEN [st EXCEPT !.data_send = @ \/ (data # <<>>),
                         !.calls = Append(@, AddBytes(data, FALSE))]
         ELSE st

\* close that resets the stream whether or not data was sent.
close_always_reset(st) ==
    LET s1 == [st EXCEPT !.finished = TRUE, !.stop_sending = TRUE, !.closed = TRUE]
        s2 == IF ~is_unidirectional(id) \/ ~is_unidirectional_send_allowed
              THEN [s1 EXCEPT !.calls = Append(@, StopSending)]
              ELSE s1
    IN  Context_reset(s2)

\* close that never asks the peer to stop sending.
close_without_stop_sending(st) ==
    LET s1 == [st EXCEPT !.finished = TRUE, !.stop_sending = TRUE, !.closed = TRUE]
    IN  IF s1.data_send
        THEN [s1 EXCEPT !.calls = Append(@, AddBytes(<<>>, TRUE))]
        ELSE Context_reset(s1)

\* Context::close
close(st) ==
    LET s1 == [st EXCEPT !.finished = TRUE, !.stop_sending = TRUE, !.closed = TRUE]
        s2 == IF ~is_unidirectional(id) \/ ~is_unidirectional_send_allowed
              THEN [s1 EXCEPT !.calls = Append(@, StopSending)]
              ELSE s1
    IN  IF s2.data_send
        THEN [s2 EXCEPT !.calls = Append(@, AddBytes(<<>>, TRUE))]
        ELSE Context_reset(s2)

\* The outbound Receiver's poll on an empty buffer: None once the channel is
\* closed or the Stream (the only Sender) is gone, NotReady otherwise.
OutExhausted(st) == st.closed \/ ~streamAlive

\* Context::poll on None that completes as soon as finished is set.
OnNone_finished_only(st) ==
    IF st.finished
    THEN [st EXCEPT !.result = "Ready"]
    ELSE [st EXCEPT !.result = "NotReady"]

\* Context::poll on None (the channel reports exhausted).
OnNone(st) ==
    IF st.finished /\ st.stop_sending
    THEN [st EXCEPT !.result = "Ready"]
    ELSE [st EXCEPT !.result = "NotReady"]

\* The loop of Context::poll, from the state st on; try_ready! returns
\* NotReady when the channel is empty and not exhausted.
RECURSIVE PollLoop(_)
PollLoop(st) ==
    IF st.q = <<>>
    THEN IF OutExhausted(st)
         THEN OnNone(st)
         ELSE [st EXCEPT !.result = "NotReady"]
    ELSE LET m == Head(st.q)
             s1 == [st EXCEPT !.q = Tail(@), !.seen = Append(@, m)]
         IN  CASE m.type = "Reset" -> PollLoop(Context_reset(s1))
               [] m.type = "Close" -> [close(s1) EXCEPT !.result = "Ready"]
               [] m.type = "SendData" -> PollLoop(send_data(s1, m.data))
               [] m.type = "RecvData" -> [s1 EXCEPT !.result = "Panic"]
               [] OTHER -> PollLoop(s1)

\* The driver may call into a Context it owns whose future has not completed.
CtxLive == ctxAlive /\ ~ctxDone /\ ~panicked

\* Context::poll, one call by the connection driver.
Context_poll ==
    /\ CtxLive
    /\ LET r == PollLoop(CtxState) IN
        /\ ctx' = [finished |-> r.finished, stop_sending |-> r.stop_sending,
                   data_send |-> r.data_send]
        /\ outClosed' = r.closed
        /\ engineCalls' = r.calls
        /\ outQ' = r.q
        /\ observed' = r.seen
        /\ ret' = Result("Context_poll", r.result, <<>>)
        /\ ctxDone' = (r.result = "Ready")
        /\ panicked' = (r.result = "Panic")
    /\ UNCHANGED <<recording, inLog, yielded,
                   id, is_client_con, streamAlive, stream_reset, outError, inQ,
                   ctxAlive, ended, sentLog, evLog, budget>>

\* recv_data that leaves the outbound channel open on a stop_sending event.
recv_data_no_close(data, event) ==
    LET q1 == IF data # <<>> /\ ~ctx.finished
              THEN InSend(inQ, RecvData(data))
              ELSE inQ
    IN  CASE event = "stream_reset" ->
                [ctx |-> [ctx EXCEPT !.finished = TRUE],
                 inQ |-> InSend(q1, Reset), closed |-> outClosed]
          [] event = "stop_sending" ->
                [ctx |-> [ctx EXCEPT !.stop_sending = TRUE],
                 inQ |-> q1, closed |-> outClosed]
          [] event = "stream_fin" ->
                [ctx |-> [ctx EXCEPT !.finished = TRUE],
                 inQ |-> InSend(q1, Close), closed |-> outClosed]
          [] OTHER ->
                [ctx |-> ctx, inQ |-> q1, closed |-> outClosed]

\* recv_data that forwards a payload whether or not the Context is finished.
recv_data_ignoring_finished(data, event) ==
    LET q1 == IF data # <<>>
              THEN InSend(inQ, RecvData(data))
              ELSE inQ
    IN  CASE event = "stream_reset" ->
                [ctx |-> [ctx EXCEPT !.finished = TRUE],
                 inQ |-> InSend(q1, Reset), closed |-> outClosed]
          [] event = "stop_sending" ->
                [ctx |-> [ctx EXCEPT !.stop_sending = TRUE],
                 inQ |-> q1, closed |-> TRUE]
          [] event = "stream_fin" ->
                [ctx |-> [ctx EXCEPT !.finished = TRUE],
                 inQ |-> InSend(q1, Close), closed |-> outClosed]
          [] OTHER ->
                [ctx |-> ctx, inQ |-> q1, closed |-> outClosed]

\* Context::recv_data(data, event): what it makes of the Context's flags, the
\* inbound channel and the outbound channel's closed bit.
recv_data(data, event) ==
    LET q1 == IF data # <<>> /\ ~ctx.finished
              THEN InSend(inQ, RecvData(data))
              ELSE inQ
    IN  CASE event = "stream_reset" ->
                [ctx |-> [ctx EXCEPT !.finished = TRUE],
                 inQ |-> InSend(q1, Reset), closed |-> outClosed]
          [] event = "stop_sending" ->
                [ctx |-> [ctx EXCEPT !.stop_sending = TRUE],
                 inQ |-> q1, closed |-> TRUE]
          [] event = "stream_fin" ->
                [ctx |-> [ctx EXCEPT !.finished = TRUE],
                 inQ |-> InSend(q1, Close), closed |-> outClosed]
          [] OTHER ->
                [ctx |-> ctx, inQ |-> q1, closed |-> outClosed]

\* One engine callback: the driver calls Context::recv_data(data, event).
Callback(data, event) ==
    /\ CtxLive
    /\ budget > 0
    /\ LET r == recv_data(data, event) IN
        /\ ctx' = r.ctx
        /\ inQ' = r.inQ
        /\ outClosed' = r.closed
    /\ evLog' = IF event = "data" THEN evLog ELSE Append(evLog, event)
    /\ budget' = budget - 1
    /\ Logged([data |-> data, late |-> ctx.finished,
               end |-> event \in {"stream_fin", "stream_reset"}])
    /\ UNCHANGED <<recording, yielded,
                   id, is_client_con, streamAlive, stream_reset, outQ, outError,
                   ctxDone, ctxAlive, engineCalls, ret, panicked, ended, sentLog,
                   observed>>

\* handle_connection_error that propagates the error to the sink only.
handle_connection_error_no_forward(err) ==
    /\ CtxLive
    /\ budget > 0
    /\ outError' = err
    /\ evLog' = Append(evLog, "conn_error")
    /\ budget' = budget - 1
    /\ Logged([data |-> <<>>, late |-> FALSE, end |-> TRUE])
    /\ UNCHANGED <<recording, yielded,
                   id, is_client_con, streamAlive, stream_reset, outQ, outClosed,
                   inQ, ctx, ctxDone, ctxAlive, engineCalls, ret, panicked, ended,
                   sentLog, observed>>

\* handle_connection_error without propagate_error: the error is forwarded
\* inbound only.
handle_connection_error_no_propagate(err) ==
    /\ CtxLive
    /\ budget > 0
    /\ inQ' = InSend(inQ, Error(err))
    /\ evLog' = Append(evLog, "conn_error")
    /\ budget' = budget - 1
    /\ Logged([data |-> <<>>, late |-> FALSE, end |-> TRUE])
    /\ UNCHANGED <<recording, yielded,
                   id, is_client_con, streamAlive, stream_reset, outQ, outClosed,
                   outError, ctx, ctxDone, ctxAlive, engineCalls, ret, panicked,
                   ended, sentLog, observed>>

\* Context::handle_connection_error(err)
handle_connection_error(err) ==
    /\ CtxLive
    /\ budget > 0
    /\ inQ' = InSend(inQ, Error(err))
    /\ outError' = err
    /\ evLog' = Append(evLog, "conn_error")
    /\ budget' = budget - 1
    /\ Logged([data |-> <<>>, late |-> FALSE, end |-> TRUE])
    /\ UNCHANGED <<recording, yielded,
                   id, is_client_con, streamAlive, stream_reset, outQ, outClosed,
                   ctx, ctxDone, ctxAlive, engineCalls, ret, panicked, ended,
                   sentLog, observed>>

\* handle_connection_close that forwards nothing.
handle_connection_close_no_forward ==
    /\ CtxLive
    /\ budget > 0
    /\ evLog' = Append(evLog, "conn_close")
    /\ budget' = budget - 1
    /\ Logged([data |-> <<>>, late |-> FALSE, end |-> TRUE])
    /\ UNCHANGED <<recording, yielded,
                   id, is_client_con, streamAlive, stream_reset, outQ, outClosed,
                   outError, inQ, ctx, ctxDone, ctxAlive, engineCalls, ret, panicked,
                   ended, sentLog, observed>>

\* Context::handle_connection_close()
handle_connection_close ==
    /\ CtxLive
    /\ budget > 0
    /\ inQ' = InSend(inQ, Close)
    /\ evLog' = Append(evLog, "conn_close")
    /\ budget' = budget - 1
    /\ Logged([data |-> <<>>, late |-> FALSE, end |-> TRUE])
    /\ UNCHANGED <<recording, yielded,
                   id, is_client_con, streamAlive, stream_reset, outQ, outClosed,
                   outError, ctx, ctxDone, ctxAlive, engineCalls, ret, panicked,
                   ended, sentLog, observed>>

\* The connection driver drops a Context whose future has completed.
DriverDropContext ==
    /\ ctxAlive /\ ctxDone
    /\ ctxAlive' = FALSE
    /\ UNCHANGED <<recording, inLog, yielded,
                   id, is_client_con, streamAlive, stream_reset, outQ, outClosed,
                   outError, inQ, ctx, ctxDone, engineCalls, ret, panicked, ended,
                   sentLog, observed, evLog, budget>>

\* ----------------------------------------------------------------- Stream
\* start_send's map_err losing the rejected payload.
SendError_without_payload(item) == Result("start_send", "SendError", <<>>)

\* start_send's map_err: the rejected message's payload comes back as
\* ErrorKind::SendError(extract_data(item)).
SendError(item) == Result("start_send", "SendError", item)

\* Sink::start_send(item): SendData(item) goes on the outbound channel.
start_send(item) ==
    /\ streamAlive /\ ~panicked
    /\ budget > 0
    /\ IF OutSendFails
       THEN /\ ret' = SendError(item)
            /\ UNCHANGED <<outQ, sentLog>>
       ELSE /\ outQ' = Append(outQ, SendData(item))
            /\ sentLog' = Append(sentLog, SendData(item))
            /\ ret' = Result("start_send", "Ready", <<>>)
    /\ budget' = budget - 1
    /\ UNCHANGED <<recording, inLog, yielded,
                   id, is_client_con, streamAlive, stream_reset, outClosed, outError,
                   inQ, ctx, ctxDone, ctxAlive, engineCalls, panicked, ended,
                   observed, evLog>>

\* Stream::reset: Reset goes on the outbound channel; failure is ErrorKind::Unknown.
Stream_reset ==
    /\ streamAlive /\ ~panicked
    /\ budget > 0
    /\ IF OutSendFails
       THEN /\ ret' = Result("reset", "Unknown", <<>>)
            /\ UNCHANGED <<outQ, sentLog>>
       ELSE /\ outQ' = Append(outQ, Reset)
            /\ sentLog' = Append(sentLog, Reset)
            /\ ret' = Result("reset", "Ok", <<>>)
    /\ budget' = budget - 1
    /\ UNCHANGED <<recording, inLog, yielded,
                   id, is_client_con, streamAlive, stream_reset, outClosed, outError,
                   inQ, ctx, ctxDone, ctxAlive, engineCalls, panicked, ended,
                   observed, evLog>>

\* Sink::poll_complete: fails once an error was propagated by the Context.
poll_complete ==
    /\ streamAlive /\ ~panicked
    /\ ret' = IF outError # <<>>
              THEN Result("poll_complete", "Unknown", <<>>)
              ELSE Result("poll_complete", "Ready", <<>>)
    /\ UNCHANGED <<recording, inLog, yielded,
                   id, is_client_con, streamAlive, stream_reset, outQ, outClosed,
                   outError, inQ, ctx, ctxDone, ctxAlive, engineCalls, panicked,
                   ended, sentLog, observed, evLog, budget>>

\* Drop for Stream: a best-effort Close, then both channel ends of the Stream go.
drop ==
    /\ streamAlive /\ ~panicked
    /\ streamAlive' = FALSE
    /\ IF OutSendFails
       THEN UNCHANGED <<outQ, sentLog>>
       ELSE /\ outQ' = Append(outQ, Close)
            /\ sentLog' = Append(sentLog, Close)
    /\ UNCHANGED <<recording, inLog, yielded,
                   id, is_client_con, stream_reset, outClosed, outError, inQ, ctx,
                   ctxDone, ctxAlive, engineCalls, ret, panicked, ended, observed,
                   evLog, budget>>

\* Stream::poll with a Reset message reported as an error.
PollOutcome_reset_as_error(m) ==
    CASE m.type = "Close" -> Result("Stream_poll", "End", <<>>)
      [] m.type = "RecvData" -> Result("Stream_poll", "Item", m.data)
      [] m.type = "SendData" -> Result("Stream_poll", "Panic", <<>>)
      [] m.type = "Error" -> Result("Stream_poll", "Err", m.data)
      [] m.type = "Reset" -> Result("Stream_poll", "Err", <<>>)

\* What Stream::poll makes of the message m taken from the inbound channel.
PollOutcome(m) ==
    CASE m.type = "Close" -> Result("Stream_poll", "End", <<>>)
      [] m.type = "RecvData" -> Result("Stream_poll", "Item", m.data)
      [] m.type = "SendData" -> Result("Stream_poll", "Panic", <<>>)
      [] m.type = "Error" -> Result("Stream_poll", "Err", m.data)
      [] m.type = "Reset" -> Result("Stream_poll", "End", <<>>)

\* Stream::poll that marks the stream reset on a Close as well.
Stream_poll_reset_on_end ==
    /\ streamAlive /\ ended = "no" /\ ~panicked
    /\ IF inQ = <<>>
       THEN /\ ret' = IF ctxAlive
                      THEN Result("Stream_poll", "NotReady", <<>>)
                      ELSE Result("Stream_poll", "End", <<>>)
            /\ UNCHANGED <<inQ, stream_reset>>
       ELSE /\ ret' = PollOutcome(Head(inQ))
            /\ inQ' = Tail(inQ)
            /\ stream_reset' = (stream_reset \/ Head(inQ).type \in {"Reset", "Close"})
    /\ ended' = IF ret'.kind \in {"End", "Err"} THEN ret'.kind ELSE "no"
    /\ panicked' = (ret'.kind = "Panic")
    /\ yielded' = IF recording /\ ret'.kind = "Item"
                   THEN Append(yielded, ret'.data) ELSE yielded
    /\ UNCHANGED <<recording, inLog,
                   id, is_client_con, streamAlive, outQ, outClosed, outError, ctx,
                   ctxDone, ctxAlive, engineCalls, sentLog, observed, evLog, budget>>

\* Stream::poll (futures::Stream), one call by the consumer.  A consumer does
\* not poll a stream again once it has ended.
Stream_poll ==
    /\ streamAlive /\ ended = "no" /\ ~panicked
    /\ IF inQ = <<>>
       THEN /\ ret' = IF ctxAlive
                      THEN Result("Stream_poll", "NotReady", <<>>)
                      ELSE Result("Stream_poll", "End", <<>>)
            /\ UNCHANGED <<inQ, stream_reset>>
       ELSE /\ ret' = PollOutcome(Head(inQ))
            /\ inQ' = Tail(inQ)
            /\ stream_reset' = (stream_reset \/ Head(inQ).type = "Reset")
    /\ ended' = IF ret'.kind \in {"End", "Err"} THEN ret'.kind ELSE "no"
    /\ panicked' = (ret'.kind = "Panic")
    /\ yielded' = IF recording /\ ret'.kind = "Item"
                   THEN Append(yielded, ret'.data) ELSE yielded
    /\ UNCHANGED <<recording, inLog,
                   id, is_client_con, streamAlive, outQ, outClosed, outError, ctx,
                   ctxDone, ctxAlive, engineCalls, sentLog, observed, evLog, budget>>

\* ------------------------------------------------------------ specification
\* Stream::new: both channels empty, all flags false; Context::new polls the
\* empty outbound channel once, which changes nothing.
Start(n) ==
    /\ id \in Ids
    /\ is_client_con \in BOOLEAN
    /\ streamAlive = TRUE
    /\ stream_reset = FALSE
    /\ outQ = <<>>
    /\ outClosed = FALSE
    /\ outError = <<>>
    /\ inQ = <<>>
    /\ ctx = [finished |-> FALSE, stop_sending |-> FALSE, data_send |-> FALSE]
    /\ ctxDone = FALSE
    /\ ctxAlive = TRUE
    /\ engineCalls = <<>>
    /\ ret = Result("none", "none", <<>>)
    /\ panicked = FALSE
    /\ ended = "no"
    /\ sentLog = <<>>
    /\ observed = <<>>
    /\ evLog = <<>>
    /\ inLog = <<>>
    /\ yielded = <<>>
    /\ budget = n

Init == Start(MaxOps) /\ recording = FALSE

FairInit == Start(FairOps) /\ recording = FALSE

FairStreamInit == Start(FairStreamOps) /\ recording = FALSE

RecvInit == Start(RecvOps) /\ recording = TRUE

Next ==
    \/ \E item \in Chunks : start_send(item)
    \/ Stream_reset
    \/ poll_complete
    \/ drop
    \/ Stream_poll
    \/ Context_poll
    \/ \E data \in Payloads, event \in Events : Callback(data, event)
    \/ \E err \in Errors : handle_connection_error(err)
    \/ handle_connection_close
    \/ DriverDropContext

Spec == Init /\ [][Next]_vars

\* The same operations with two distinguishable inbound payloads and the
\* inbound histories kept.
RecvNext ==
    \/ Next
    \/ \E data \in OtherPayloads, event \in Events : Callback(data, event)

RecvSpec == RecvInit /\ [][RecvNext]_vars

\* The driver polls every live Context after each callback batch.
FairSpec ==
    /\ FairInit /\ [][Next]_vars
    /\ WF_vars(Context_poll)

\* The consumer keeps polling a Stream it has not dropped, and the driver
\* drops a Context whose future has completed.
FairStreamSpec ==
    /\ FairStreamInit /\ [][Next]_vars
    /\ WF_vars(Stream_poll)
    /\ WF_vars(DriverDropContext)

\* ------------------------------------------------------------------ helpers
\* The messages of kind t in q, in order.
OfType(q, t) == SelectSeq(q, LAMBDA m : m.type = t)
Has(q, t) == \E i \in 1..Len(q) : q[i].type = t

\* The payloads of the SendData messages of q, in order.
DataOf(q) == [i \in 1..Len(OfType(q, "SendData")) |-> OfType(q, "SendData")[i].data]

\* The payloads of the add_bytes calls with set_fin = false, in order.
Forwarded ==
    LET c == SelectSeq(engineCalls, LAMBDA e : e.call = "add_bytes" /\ ~e.fin)
    IN  [i \in 1..Len(c) |-> c[i].data]

IsPrefix(a, b) == Len(a) <= Len(b) /\ \A i \in 1..Len(a) : a[i] = b[i]

FinCalled == \E i \in 1..Len(engineCalls) : engineCalls[i] = AddBytes(<<>>, TRUE)
ResetCalled == \E i \in 1..Len(engineCalls) : engineCalls[i] = ResetStream
Delivered(e) == \E i \in 1..Len(evLog) : evLog[i] = e

\* The local side may hand payload to the engine on this stream.
SendPermitted == ~is_unidirectional(id) \/ is_unidirectional_send_allowed

\* ---------------------------------------------------------------------- C1
\* Only chunks were sent: no Close (drop) and no Reset went on the channel.
OnlyChunksSent == ~Has(sentLog, "Close") /\ ~Has(sentLog, "Reset")

\* C1 as stated: with only chunks sent, what the Context has taken from the
\* channel plus what is still queued is exactly what was sent, in order, and
\* the engine has had exactly one add_bytes(set_fin = false) call per chunk
\* taken, in order, with the chunk's payload.
C1_AsStated ==
    OnlyChunksSent =>
        /\ observed \o outQ = sentLog
        /\ engineCalls = [i \in 1..Len(observed) |-> AddBytes(observed[i].data, FALSE)]

\* C1, amended: with only chunks sent, the Context observes exactly the chunks
\* sent, in order; each is forwarded by one add_bytes(set_fin = false) call, in
\* order and with its payload, when the local side may send on the stream and
\* no stop_sending has been set; without send permission nothing reaches the
\* engine, and with stop_sending set the calls are a prefix of the chunks.
C1_ChunksForwarded ==
    OnlyChunksSent =>
        /\ observed \o outQ = sentLog
        /\ \A i \in 1..Len(engineCalls) :
              engineCalls[i].call = "add_bytes" /\ ~engineCalls[i].fin
        /\ IsPrefix(Forwarded, DataOf(observed))
        /\ (SendPermitted /\ ~ctx.stop_sending) => Forwarded = DataOf(observed)
        /\ ~SendPermitted => engineCalls = <<>>

\* Two different chunks were sent and both have reached the engine.
C1_Witness ==
    /\ OnlyChunksSent
    /\ Len(sentLog) = 2 /\ sentLog[1] # sentLog[2] /\ outQ = <<>>
    /\ Forwarded = DataOf(sentLog)

\* ---------------------------------------------------------------------- C2
\* The Stream was dropped after at least one chunk was accepted by the sink.
DroppedAfterSend == ~streamAlive /\ Has(sentLog, "SendData")

DroppedAfterData ==
    /\ ~streamAlive
    /\ SendPermitted
    /\ \E i \in 1..Len(sentLog) : sentLog[i].type = "SendData" /\ sentLog[i].data # <<>>
    /\ ~Has(sentLog, "Reset")

DroppedWithoutSend == ~streamAlive /\ ~Has(sentLog, "SendData")

\* C3: when the Stream was dropped with no prior send and the Context's
\* future has completed, the engine has had reset_stream and no fin.
C3_ResetWithoutSend == (DroppedWithoutSend /\ ctxDone) => (ResetCalled /\ ~FinCalled)

\* ---------------------------------------------------------------------- C4
Terminal == {"stream_fin", "stream_reset", "conn_error", "conn_close"}

\* The first terminating event delivered to the Context, "none" if none was.
FirstTerminal ==
    LET t == SelectSeq(evLog, LAMBDA e : e \in Terminal)
    IN  IF t = <<>> THEN "none" ELSE t[1]

\* C4 as stated: a Stream::poll that ends the inbound sequence after a
\* stream_fin event was delivered returns end-of-sequence with is_reset()
\* false, and after a stream_reset event end-of-sequence with is_reset() true.
C4_AsStated ==
    [][(Stream_poll /\ ended' # "no") =>
         /\ Delivered("stream_fin") => (ended' = "End" /\ ~stream_reset')
         /\ Delivered("stream_reset") => (ended' = "End" /\ stream_reset')]_vars

\* C4, amended: the same, when the stream_fin (stream_reset) event is the
\* first terminating event (stream_fin, stream_reset, connection error,
\* connection close) delivered to the Context.
C4_FirstEventDecides ==
    [][(Stream_poll /\ ended' # "no") =>
         /\ FirstTerminal = "stream_fin" => (ended' = "End" /\ ~stream_reset')
         /\ FirstTerminal = "stream_reset" => (ended' = "End" /\ stream_reset')]_vars

\* The inbound sequence has ended on the Reset of a stream_reset event.
C4_Witness ==
    FirstTerminal = "stream_reset" /\ ended = "End" /\ stream_reset

\* ---------------------------------------------------------------------- C5
\* C5 as stated: every Stream::poll made after handle_connection_close() was
\* invoked yields end-of-sequence.
C5_AsStated ==
    [][(Stream_poll /\ Delivered("conn_close")) => ret'.kind = "End"]_vars

\* C5, amended: a Stream::poll made after handle_connection_close() never
\* returns NotReady: the inbound channel still holds a message, the poll
\* yields end-of-sequence when no RecvData or Error message is queued ahead of
\* the Close, and otherwise it yields the message at the head of the queue.
C5_CloseAfterQueued ==
    [][(Stream_poll /\ Delivered("conn_close")) =>
         /\ inQ # <<>>
         /\ Has(inQ, "Close")
         /\ ret'.kind # "NotReady"
         /\ Head(inQ).type \notin {"RecvData", "Error"} => ret'.kind = "End"
         /\ Head(inQ).type = "RecvData" => ret' = Result("Stream_poll", "Item", Head(inQ).data)
         /\ Head(inQ).type = "Error" => ret'.kind = "Err"]_vars

\* The poll right after handle_connection_close(), with nothing queued
\* ahead, has returned end-of-sequence.
C5_Witness ==
    /\ evLog = <<"conn_close">>
    /\ ret = Result("Stream_poll", "End", <<>>)
    /\ ended = "End" /\ ~stream_reset /\ inQ = <<>>

\* ---------------------------------------------------------------------- C6
\* C6: a Context::poll that finds finished = true and stop_sending = true and
\* a Close at the head of the outbound channel makes no engine call, does not
\* panic, and returns Ready.
C6_CloseWhenFinished ==
    [][(Context_poll /\ ctx.finished /\ ctx.stop_sending
          /\ outQ # <<>> /\ Head(outQ) = Close) =>
         /\ engineCalls' = engineCalls
         /\ ~panicked'
         /\ ret' = Result("Context_poll", "Ready", <<>>)]_vars

\* ---------------------------------------------------------------------- C7
\* C7: a Context::poll made with finished = true and stop_sending = true
\* returns Ready, never NotReady, having drained the outbound channel or
\* stopped at a Close; and in such a state the outbound channel is closed.
C7_FinishedCompletes ==
    /\ []((ctx.finished /\ ctx.stop_sending) => outClosed)
    /\ [][(Context_poll /\ ctx.finished /\ ctx.stop_sending) =>
            /\ ret' = Result("Context_poll", "Ready", <<>>)
            /\ ctxDone'
            /\ (outQ' = <<>> \/ observed'[Len(observed')] = Close)]_vars

\* The future has completed on an exhausted channel (no Close was processed),
\* both flags having been set by engine events.
C7_Witness ==
    /\ ctxDone /\ ctx.finished /\ ctx.stop_sending
    /\ ~Has(observed, "Close")
    /\ ret = Result("Context_poll", "Ready", <<>>)

\* ---------------------------------------------------------------------- C8
\* C8: once the Stream is dropped, a Context that keeps being polled
\* completes, and a live Stream can always be dropped at once.
C8_DropCompletes ==
    /\ (~streamAlive) ~> ctxDone
    /\ [](streamAlive => ENABLED drop)

\* ---------------------------------------------------------------------- C9
\* A terminating event has occurred: fin, reset, connection close or error
\* was delivered to the Context, or the Context's future has completed.
Terminated == FirstTerminal # "none" \/ ctxDone

\* C9: the inbound sequence ends in exactly one of end-of-sequence with
\* is_reset() false, end-of-sequence with is_reset() true, or an error; the
\* outcome, once reached, does not change; an error is reached only after a
\* connection error and is_reset() only after a stream_reset event; and once
\* a terminating event has occurred, a consumer that keeps polling (and does
\* not drop the Stream) reaches the outcome.
C9_OneOutcome ==
    /\ [](ended \in {"no", "End", "Err"})
    /\ []((ended = "no" \/ ended = "Err") => ~stream_reset)
    /\ [](ended = "Err" => Delivered("conn_error"))
    /\ [](stream_reset => Delivered("stream_reset"))
    /\ [](ended # "no" => Terminated)
    /\ [][ended # "no" => (ended' = ended /\ stream_reset' = stream_reset)]_vars
    /\ (Terminated /\ streamAlive) ~> (ended # "no" \/ ~streamAlive)

\* The consumer was handed the connection error as the stream's outcome.
C9_Witness ==
    /\ streamAlive /\ ended = "Err" /\ FirstTerminal = "conn_error"
    /\ ret = Result("Stream_poll", "Err", <<9>>)

\* --------------------------------------------------------------------- C10
\* The receiving end of the outbound channel is closed: a stop_sending event
\* was received, or the Context has terminated.
ReceiverClosed == ctx.stop_sending \/ ctxDone \/ ~ctxAlive

\* Every payload handed to the engine by add_bytes(set_fin = false) is the
\* payload of a chunk the outbound channel accepted.
ForwardedWasAccepted ==
    /\ Len(Forwarded) <= Len(DataOf(observed))
    /\ \A i \in 1..Len(Forwarded) :
          \E j \in 1..Len(sentLog) : sentLog[j] = SendData(Forwarded[i])

\* C10: a start_send(item) made once the receiving end is closed fails with
\* SendError(item) and puts nothing on the channel; the engine is only ever
\* handed chunks the channel accepted.
C10_SendFailsWhenClosed ==
    /\ [](ForwardedWasAccepted)
    /\ [][\A item \in Chunks :
            (start_send(item) /\ ReceiverClosed) =>
                /\ ret' = Result("start_send", "SendError", item)
                /\ outQ' = outQ /\ sentLog' = sentLog
                /\ engineCalls' = engineCalls]_vars

\* A non-empty chunk was rejected after a stop_sending event and the Context,
\* polled since, has handed nothing to the engine.
C10_Witness ==
    /\ ret = Result("start_send", "SendError", <<1>>)
    /\ Delivered("stop_sending")
    /\ outQ = <<>> /\ engineCalls = <<>>

\* --------------------------------------------------------------------- C11
\* The inbound sequence of a live Stream has not ended yet.
StreamWaiting == streamAlive /\ ended = "no" /\ ~panicked

\* C11: after handle_connection_error(err) the error stays queued inbound
\* behind the messages queued before it until the Stream takes it, the poll
\* that takes it fails with that error, every poll_complete made from then on
\* fails instead of staying pending, and a Stream that keeps being polled is
\* not left waiting.
C11_ErrorReachesStream ==
    /\ [](Delivered("conn_error") /\ StreamWaiting => Has(inQ, "Error"))
    /\ [][\A err \in Errors :
            handle_connection_error(err) /\ streamAlive =>
                inQ' = Append(inQ, Error(err))]_vars
    /\ [][Stream_poll /\ inQ # <<>> /\ Head(inQ).type = "Error" =>
            /\ ret' = Result("Stream_poll", "Err", Head(inQ).data)
            /\ ended' = "Err"]_vars
    /\ [][poll_complete /\ Delivered("conn_error") =>
            ret' = Result("poll_complete", "Unknown", <<>>)]_vars
    /\ (Delivered("conn_error") /\ StreamWaiting ~> ~StreamWaiting)

\* The Stream polled after a connection error and was handed that error.
C11_Witness ==
    /\ Delivered("conn_error")
    /\ ret = Result("Stream_poll", "Err", <<9>>)
    /\ ended = "Err"
    /\ outError = <<9>>

\* --------------------------------------------------------------------- C12
\* The outbound channel holds payload chunks only.
OnlySendDataQueued == \A i \in 1..Len(outQ) : outQ[i].type = "SendData"

\* The unidirectional stream was initiated by the local side.
LocallyInitiated == (id % 2 = 0) = is_client_con

\* C12: on a unidirectional stream payload reaches the engine only if the
\* stream was initiated by the local side; otherwise the SendData messages
\* are taken off the channel with no engine call, and the start_send that
\* queued them reported no error; on a bidirectional stream every SendData
\* processed before stop_sending is set is handed to the engine.
C12_UnidirectionalSendGuard ==
    /\ [](is_unidirectional(id) /\ Forwarded # <<>> => LocallyInitiated)
    /\ [][is_unidirectional(id) /\ ~LocallyInitiated /\ OnlySendDataQueued
            /\ Context_poll =>
                /\ engineCalls' = engineCalls
                /\ outQ' = <<>>
                /\ ret'.kind # "Panic"]_vars
    /\ [][is_unidirectional(id) /\ ~LocallyInitiated /\ ~OutSendFails
            /\ (\E item \in Chunks : start_send(item)) =>
                ret' = Result("start_send", "Ready", <<>>)]_vars
    /\ [][~is_unidirectional(id) /\ ~ctx.stop_sending /\ OnlySendDataQueued
            /\ Context_poll =>
                Forwarded' = Forwarded \o DataOf(outQ)]_vars

\* On a unidirectional stream initiated by the peer two chunks were accepted
\* by the sink and taken by the Context's poll, and the engine saw nothing.
C12_Witness ==
    /\ is_unidirectional(id) /\ ~LocallyInitiated
    /\ DataOf(observed) = <<<<1>>, <<2>>>>
    /\ outQ = <<>>
    /\ engineCalls = <<>>
    /\ ret = Result("Context_poll", "NotReady", <<>>)

\* --------------------------------------------------------------------- C13
\* The index of the first driver call that ends the stream, the length of the
\* history if there is none.
FirstEnd(log) ==
    IF \E i \in 1..Len(log) : log[i].end
    THEN CHOOSE i \in 1..Len(log) : log[i].end /\ \A j \in 1..(i - 1) : ~log[j].end
    ELSE Len(log)

\* The non-empty payloads handed to a Context that was not finished, up to and
\* including the first call that ends the stream, in call order.
Expected ==
    LET upto == SubSeq(inLog, 1, FirstEnd(inLog))
        kept == SelectSeq(upto, LAMBDA e : e.data # <<>> /\ ~e.late)
    IN  [i \in 1..Len(kept) |-> kept[i].data]

\* C13: the payloads Stream::poll has returned are, in order and each once,
\* the non-empty payloads passed to recv_data while the Context was not
\* finished, up to the first terminal message; when the inbound sequence has
\* ended all of them have been returned, the payload that came in the callback
\* that announced the end included.
C13_InboundInOrder ==
    /\ IsPrefix(yielded, Expected)
    /\ ended # "no" => yielded = Expected

\* Two different payloads, the second in the callback that announced
\* stream_fin, were returned in callback order before the end-of-sequence.
C13_Witness ==
    /\ Len(inLog) = 2 /\ ~inLog[1].end /\ inLog[2].end
    /\ yielded = <<<<5>>, <<6>>>>
    /\ ret = Result("Stream_poll", "End", <<>>)
    /\ ended = "End" /\ ~stream_reset

\* --------------------------------------------------------------------- C14
\* C14: the inbound channel never holds a SendData message and the outbound
\* channel never holds a RecvData message, so neither poll takes a panic!()
\* branch.
C14_NoForeignMessage ==
    /\ ~Has(inQ, "SendData")
    /\ ~Has(outQ, "RecvData")
    /\ ~panicked
    /\ ret.kind # "Panic"

\* Both polls have taken messages and both channels still hold one.
C14_Witness ==
    /\ observed # <<>>
    /\ ret = Result("Stream_poll", "Item", <<5>>)
    /\ inQ # <<>> /\ outQ # <<>>
    /\ ~panicked

\* --------------------------------------------------------------------- C15
\* Stream::poll is about to take a Reset message off the inbound channel.
ResetIsNext == inQ # <<>> /\ Head(inQ).type = "Reset"

\* C15: is_reset() is false at construction, turns true in exactly the
\* Stream::poll calls that take a Reset message, and is never cleared by any
\* operation.
C15_IsResetMonotone ==
    /\ ~stream_reset
    /\ [][stream_reset' # stream_reset => ResetIsNext /\ Stream_poll]_vars
    /\ [][ResetIsNext /\ Stream_poll => stream_reset']_vars
    /\ [][stream_reset => stream_reset']_vars

\* After Stream::poll took a Reset, the sink accepted a chunk and is_reset()
\* is still true.
C15_Witness ==
    /\ stream_reset
    /\ Delivered("stream_reset")
    /\ ret = Result("start_send", "Ready", <<>>)
    /\ sentLog = <<SendData(<<1>>)>>

\* --------------------------------------------------------------------- C16
\* The index of the first Close message of q.
FirstClose(q) ==
    CHOOSE i \in 1..Len(q) : q[i].type = "Close" /\ \A j \in 1..(i - 1) : q[j].type # "Close"

\* The number of engine calls in calls that equal c.
Count(calls, c) == Len(SelectSeq(calls, LAMBDA e : e = c))

\* The stream is bidirectional, or unidirectional and the local side may not
\* send on it.
StopsPeer == ~is_unidirectional(id) \/ ~LocallyInitiated

\* C16: the Context::poll that meets a Close sets finished and stop_sending,
\* calls the engine's stop_sending exactly when the stream is bidirectional
\* or receive-only, then calls exactly one of add_bytes(empty, set_fin = true)
\* and reset_stream, the former iff data_send is true, and returns Ready with
\* the messages behind the Close left on the channel.
C16_CloseSequence ==
    [][Has(outQ, "Close") /\ Context_poll =>
        LET k == FirstClose(outQ)
            n == Len(engineCalls')
        IN  /\ ctx'.finished /\ ctx'.stop_sending
            /\ ret' = Result("Context_poll", "Ready", <<>>) /\ ctxDone'
            /\ outQ' = SubSeq(outQ, k + 1, Len(outQ))
            /\ observed' = observed \o SubSeq(outQ, 1, k)
            /\ n > 0
            /\ engineCalls'[n] = IF ctx'.data_send THEN AddBytes(<<>>, TRUE)
                                                   ELSE ResetStream
            /\ StopsPeer => n > 1 /\ engineCalls'[n - 1] = StopSending
            /\ Count(engineCalls', StopSending) = IF StopsPeer THEN 1 ELSE 0
            /\ Count(engineCalls', AddBytes(<<>>, TRUE)) =
                  IF ctx'.data_send THEN 1 ELSE 0
            /\ Count(engineCalls', ResetStream) =
                  Len(OfType(observed', "Reset")) + IF ctx'.data_send THEN 0 ELSE 1]_vars

\* On a bidirectional stream a chunk was forwarded, the Stream was dropped and
\* the Context's poll ran the close sequence: stop_sending, then the fin.
C16_Witness ==
    /\ ~is_unidirectional(id)
    /\ ret = Result("Context_poll", "Ready", <<>>)
    /\ observed = <<SendData(<<1>>), Close>>
    /\ engineCalls = <<AddBytes(<<1>>, FALSE), StopSending, AddBytes(<<>>, TRUE)>>
    /\ ctx.finished /\ ctx.stop_sending

\* --------------------------------------------------------------------- C17
\* The last message of q is m (q is not empty).
EndsWith(q, m) == q # <<>> /\ q[Len(q)] = m

\* What recv_data(data, event) must have done with the event.
EventApplied(event) ==
    CASE event = "stream_reset" ->
            ctx'.finished /\ (streamAlive => EndsWith(inQ', Reset))
      [] event = "stop_sending" -> ctx'.stop_sending /\ outClosed'
      [] event = "stream_fin" ->
            ctx'.finished /\ (streamAlive => EndsWith(inQ', Close))
      [] OTHER -> ctx' = ctx /\ outClosed' = outClosed

\* C17: recv_data puts RecvData(data) on the inbound channel only if data is
\* not empty and finished is false (and always then, while the Stream lives);
\* with finished true the payload is dropped, nothing panics, and the event
\* is applied all the same.
C17_NoPayloadOnceFinished ==
    [][\A data \in Payloads \cup OtherPayloads, event \in Events :
        Callback(data, event) =>
            /\ Len(OfType(inQ', "RecvData")) =
                  Len(OfType(inQ, "RecvData")) +
                  IF data # <<>> /\ ~ctx.finished /\ streamAlive THEN 1 ELSE 0
            /\ data # <<>> /\ ~ctx.finished /\ streamAlive =>
                  OfType(inQ', "RecvData") = Append(OfType(inQ, "RecvData"), RecvData(data))
            /\ ~panicked'
            /\ EventApplied(event)]_vars

\* A payload came with a stop_sending event after stream_fin: the Stream got
\* the end-of-sequence, nothing is queued, and stop_sending was applied.
C17_Witness ==
    /\ Len(inLog) = 2 /\ inLog[1].end /\ inLog[2] = [data |-> <<6>>, late |-> TRUE, end |-> FALSE]
    /\ evLog = <<"stream_fin", "stop_sending">>
    /\ ctx.finished /\ ctx.stop_sending /\ outClosed
    /\ inQ = <<>> /\ yielded = <<>> /\ ended = "End"

\* --------------------------------------------------------------------- C18
\* C18: once the Context has called reset_stream for a consumer Reset, no
\* payload is handed to the engine through add_bytes any more: in the order
\* of the engine calls no add_bytes with a non-empty payload follows a
\* reset_stream.
C18_NoPayloadAfterReset ==
    \A i, j \in 1..Len(engineCalls) :
        i < j /\ engineCalls[i] = ResetStream =>
            ~(engineCalls[j].call = "add_bytes" /\ engineCalls[j].data # <<>>)

\* --------------------------------------------------------------------- C19
\* C19: Context::poll returns Ready exactly when it met a Close message, or
\* drained the channel, found it exhausted, and finished and stop_sending
\* were both true; it returns NotReady otherwise, a processed Reset
\* notwithstanding; so finished and stop_sending hold whenever the future has
\* completed.
C19_ReadyOnlyWhenClosed ==
    /\ [](ctxDone => ctx.finished /\ ctx.stop_sending)
    /\ [][CtxLive /\ Context_poll =>
            /\ ret'.kind \in {"Ready", "NotReady"}
            /\ ret'.kind = "Ready" <=>
                  \/ Has(outQ, "Close")
                  \/ /\ outQ' = <<>>
                     /\ outClosed' \/ ~streamAlive
                     /\ ctx'.finished /\ ctx'.stop_sending
            /\ ctxDone' = (ret'.kind = "Ready")]_vars

\* The Context's poll processed a consumer Reset and nothing else: the
\* engine was told to reset the stream and the future is still pending.
C19_Witness ==
    /\ observed = <<Reset>>
    /\ engineCalls = <<ResetStream>>
    /\ ret = Result("Context_poll", "NotReady", <<>>)
    /\ outClosed /\ ~ctxDone
    /\ ~ctx.finished /\ ~ctx.stop_sending

\* --------------------------------------------------------------------- C20
\* An add_bytes call with a non-empty payload has been made.
PayloadSent ==
    \E i \in 1..Len(engineCalls) :
        engineCalls[i].call = "add_bytes" /\ engineCalls[i].data # <<>>

\* The Context has run the close sequence.
CloseProcessed == Has(observed, "Close")

\* C20: data_send is true exactly when an add_bytes call with a non-empty
\* payload has been made, never returns to false, and the close sequence ends
\* in the zero-length fin write if it is true and in reset_stream if it is
\* false.
C20_DataSendDecides ==
    /\ [](ctx.data_send <=> PayloadSent)
    /\ [](CloseProcessed =>
            /\ engineCalls # <<>>
            /\ engineCalls[Len(engineCalls)] =
                  IF ctx.data_send THEN AddBytes(<<>>, TRUE) ELSE ResetStream
            /\ FinCalled <=> ctx.data_send)
    /\ [](~CloseProcessed => ~FinCalled)
    /\ [][ctx.data_send => ctx'.data_send]_vars

\* Only an empty chunk was handed to the engine before the Stream was
\* dropped: data_send stayed false and the close sequence reset the stream.
C20_Witness ==
    /\ CloseProcessed
    /\ ~ctx.data_send
    /\ engineCalls = <<AddBytes(<<>>, FALSE), StopSending, ResetStream>>

====
